---- MODULE Spec2Model ----
(***************************************************************************)
(* Model of prompts/_update-to-engram.py: the bulk updater that adapts the *)
(* agent and pipeline YAML documents to the engram integration format.     *)
(*                                                                         *)
(* Python strings are sequences of tokens (a token is a run of characters  *)
(* that the program never splits); Python values are tagged records:       *)
(*   [kind |-> "str",  s |-> <<tokens>>]                                   *)
(*   [kind |-> "none"]                                                     *)
(*   [kind |-> "list", items |-> <<values>>]                               *)
(*   [kind |-> "dict", items |-> <<[key |-> k, val |-> value], ...>>]      *)
(* A dict keeps its keys in insertion order, as Python's dict does.        *)
(***************************************************************************)
EXTENDS Integers, Sequences, FiniteSets, TLC

(***************************************************************************)
(* Bounds of the model.                                                    *)
(***************************************************************************)
\* How many times the tool is run, one run after the other.
MaxRuns == 2
\* How many pieces an enumerated text field is built from.
MaxPieces == 2
\* How many entries an enumerated `required` sequence has at most.
MaxRequired == 1

(***************************************************************************)
(* Python values.                                                          *)
(***************************************************************************)
Str(s) == [kind |-> "str", s |-> s]
None == [kind |-> "none"]
List(items) == [kind |-> "list", items |-> items]
Dict(items) == [kind |-> "dict", items |-> items]
Item(k, v) == [key |-> k, val |-> v]
\* The str a YAML key or a `required` entry is: one token.
Key(k) == Str(<<k>>)

\* str.lower() on one token.
LowerToken(t) ==
    CASE t = "Engram" -> "engram"
      [] t = "ENGRAM" -> "engram"
      [] t = "Adapted" -> "adapted"
      [] t = "Do" -> "do"
      [] t = "Fetch" -> "fetch"
      [] t = "Data" -> "data"
      [] t = "Build" -> "build"
      [] t = "Run the stages." -> "run the stages."
      [] t = " INTEGRATION - YOU MUST:" -> " integration - you must:"
      [] t = " INTEGRATION:" -> " integration:"
      [] t = " WORKFLOW:" -> " workflow:"
      [] t = "1. BEFORE WORK: " -> "1. before work: "
      [] t = "1. Get task: " -> "1. get task: "
      [] t = "- Create " -> "- create "
      [] OTHER -> t

\* Lower with the call to lower() forgotten.
Lower_Forgotten(s) == s

\* str.lower(): every character of the string is lowered.
Lower(s) == [i \in 1..Len(s) |-> LowerToken(s[i])]

\* `sub in s` for two strs: sub occurs as a contiguous run of s.
Contains(sub, s) ==
    \E i \in 0..(Len(s) - Len(sub)) : SubSeq(s, i + 1, i + Len(sub)) = sub

\* s.replace(old, new): every non-overlapping occurrence, left to right.
RECURSIVE Replace(_, _, _)
Replace(s, old, new) ==
    IF Len(s) < Len(old) THEN s
    ELSE IF SubSeq(s, 1, Len(old)) = old
         THEN new \o Replace(SubSeq(s, Len(old) + 1, Len(s)), old, new)
         ELSE <<Head(s)>> \o Replace(Tail(s), old, new)

\* name.startswith(prefix)
StartsWith(s, prefix) ==
    Len(s) >= Len(prefix) /\ SubSeq(s, 1, Len(prefix)) = prefix

\* name.endswith(suffix), the test glob("*.yaml") makes on a file name
EndsWith(s, suffix) ==
    Len(s) >= Len(suffix) /\ SubSeq(s, Len(s) - Len(suffix) + 1, Len(s)) = suffix

(***************************************************************************)
(* dict and list operations.                                               *)
(***************************************************************************)
\* `k in d` for a dict d
HasKey(d, k) == \E i \in 1..Len(d.items) : d.items[i].key = k

\* d[k] for a dict d that has the key
Get(d, k) == d.items[CHOOSE i \in 1..Len(d.items) : d.items[i].key = k].val

\* d[k] = v: an existing key keeps its place, a new key goes last
Put(d, k, v) ==
    IF HasKey(d, k)
    THEN Dict([i \in 1..Len(d.items) |->
                 IF d.items[i].key = k THEN Item(k, v) ELSE d.items[i]])
    ELSE Dict(Append(d.items, Item(k, v)))

\* `k in v` for any value v and a str key k: a dict tests its keys, a list its
\* elements, a str its substrings. None is not iterable: see InRaises.
PyIn(k, v) ==
    CASE v.kind = "dict" -> HasKey(v, k)
      [] v.kind = "list" -> \E i \in 1..Len(v.items) : v.items[i] = Key(k)
      [] v.kind = "str" -> Contains(<<k>>, v.s)
      [] OTHER -> FALSE

\* `k in v` raises TypeError when v is None
InRaises(v) == v.kind = "none"

\* `needle in v` for a str needle of any length: a str tests its substrings, a
\* list its elements; no dict of the model has a key of several tokens.
StrIn(needle, v) ==
    CASE v.kind = "str" -> Contains(needle, v.s)
      [] v.kind = "list" -> \E i \in 1..Len(v.items) : v.items[i] = Str(needle)
      [] OTHER -> FALSE

\* The values a `for` loop over v visits: a list's elements, a dict's keys, a
\* str's characters.
Elements(v) ==
    CASE v.kind = "list" -> v.items
      [] v.kind = "dict" -> [i \in 1..Len(v.items) |-> Key(v.items[i].key)]
      [] v.kind = "str" -> [i \in 1..Len(v.s) |-> Str(<<v.s[i]>>)]
      [] OTHER -> <<>>

\* repr(v), and str(v): what the agent transformer compares before and after.
RECURSIVE Repr(_), JoinList(_), JoinDict(_)
Repr(v) ==
    CASE v.kind = "str" -> <<"'">> \o v.s \o <<"'">>
      [] v.kind = "none" -> <<"None">>
      [] v.kind = "list" -> <<"[">> \o JoinList(v.items) \o <<"]">>
      [] v.kind = "dict" -> <<"{">> \o JoinDict(v.items) \o <<"}">>
JoinList(items) ==
    IF Len(items) = 0 THEN <<>>
    ELSE Repr(items[1])
         \o (IF Len(items) > 1 THEN <<", ">> \o JoinList(Tail(items)) ELSE <<>>)
JoinDict(items) ==
    IF Len(items) = 0 THEN <<>>
    ELSE Repr(Key(items[1].key)) \o <<": ">> \o Repr(items[1].val)
         \o (IF Len(items) > 1 THEN <<", ">> \o JoinDict(Tail(items)) ELSE <<>>)
PyStr(v) == IF v.kind = "str" THEN v.s ELSE Repr(v)

(***************************************************************************)
(* The fixed texts of the program.                                         *)
(***************************************************************************)
\* "engram", the keyword searched in the lowered text
KEYWORD == <<"engram">>
\* "(Engram-Adapted)", and " (Engram-Adapted)" as appended to a title
TITLE_MARKER == <<"(", "Engram", "-", "Adapted", ")">>
TITLE_SUFFIX == <<" ">> \o TITLE_MARKER
\* "-engram-adapted", ".yaml" and "-engram-adapted.yaml"
ADAPTED == <<"-", "engram", "-", "adapted">>
YAML_EXT == <<".yaml">>
ADAPTED_YAML == ADAPTED \o YAML_EXT
\* The block add_engram_instructions prepends (its first lines).
engram_prefix ==
    <<"ENGRAM", " INTEGRATION - YOU MUST:", "1. BEFORE WORK: ",
      "engram", " task show {{task_id}}">>
\* The block update_agent_prompt appends (its first lines).
engram_prompt_addition ==
    <<"\n\n", "ENGRAM", " WORKFLOW:", "1. Get task: ",
      "engram", " task show {{task_id}}">>
\* The block the pipeline transformer prepends (its first lines).
engram_instr ==
    <<"\n", "ENGRAM", " INTEGRATION:", "- Create ", "engram",
      " workflow for orchestration">>

\* The property mappings the transformers insert.
Property(description) ==
    Dict(<<Item("type", Key("string")), Item("description", Str(<<description>>))>>)
TaskIdParameter == Property("The engram task ID for this work")
TaskIdResponse == Property("The task ID (echoed for confirmation)")
StatusResponse == Property("Status of work completion")
ParentTaskIdParameter == Property("The engram parent task ID")

(***************************************************************************)
(* The result of a step that may raise: the value, and the exception       *)
(* ("" when none was raised).                                              *)
(***************************************************************************)
Ok(v) == [val |-> v, exc |-> ""]
Raise(v, e) == [val |-> v, exc |-> e]

\* A local variable: x is evaluated once, and F applied to its value.
Bind(x, F(_)) == CHOOSE r \in {F(v) : v \in {x}} : TRUE

(***************************************************************************)
(* The agent mutators.                                                     *)
(***************************************************************************)
\* add_engram_instructions on a str
add_engram_instructions(original_instructions) ==
    IF Contains(KEYWORD, Lower(original_instructions))
    THEN original_instructions
    ELSE engram_prefix \o original_instructions

\* update_agent_prompt on a str
update_agent_prompt(prompt) ==
    IF Contains(KEYWORD, Lower(prompt))
    THEN prompt
    ELSE prompt \o engram_prompt_addition

\* if key not in properties: properties[key] = value
\* (None is not iterable; a str or a list takes no item assignment by a str)
EnsureProperty(properties, key, value) ==
    IF InRaises(properties) THEN Raise(properties, "TypeError")
    ELSE IF PyIn(key, properties) THEN Ok(properties)
    ELSE IF properties.kind = "dict" THEN Ok(Put(properties, key, value))
    ELSE Raise(properties, "TypeError")

\* EnsureRequired without its membership test.
EnsureRequired_Unguarded(required, key) ==
    IF InRaises(required) THEN Raise(required, "TypeError")
    ELSE IF required.kind = "list" THEN Ok(List(Append(required.items, Key(key))))
    ELSE Raise(required, "AttributeError")

\* if key not in required: required.append(key)
\* (None is not iterable; only a list has append)
EnsureRequired(required, key) ==
    IF InRaises(required) THEN Raise(required, "TypeError")
    ELSE IF PyIn(key, required) THEN Ok(required)
    ELSE IF required.kind = "list" THEN Ok(List(Append(required.items, Key(key))))
    ELSE Raise(required, "AttributeError")

\* update_agent_parameters
update_agent_parameters(parameters) ==
    IF InRaises(parameters) THEN Raise(parameters, "TypeError")
    ELSE IF ~PyIn("properties", parameters) THEN Ok(parameters)
    ELSE IF parameters.kind # "dict" THEN Raise(parameters, "TypeError")
    ELSE
      Bind(EnsureProperty(Get(parameters, "properties"), "task_id", TaskIdParameter),
           LAMBDA p :
      IF p.exc # "" THEN Raise(parameters, p.exc)
      ELSE
      Bind(Put(parameters, "properties", p.val), LAMBDA d1 :
      IF ~HasKey(d1, "required") THEN Ok(d1)
      ELSE
      Bind(EnsureRequired(Get(d1, "required"), "task_id"), LAMBDA r :
      IF r.exc # "" THEN Raise(d1, r.exc)
      ELSE Ok(Put(d1, "required", r.val)))))

\* update_response_schema
update_response_schema(response) ==
    IF InRaises(response) THEN Raise(response, "TypeError")
    ELSE IF ~PyIn("schema", response) THEN Ok(response)
    ELSE IF response.kind # "dict" THEN Raise(response, "TypeError")
    ELSE
      Bind(Get(response, "schema"), LAMBDA sch :
      IF InRaises(sch) THEN Raise(response, "TypeError")
      ELSE IF ~PyIn("properties", sch) THEN Ok(response)
      ELSE IF sch.kind # "dict" THEN Raise(response, "TypeError")
      ELSE
      Bind(EnsureProperty(Get(sch, "properties"), "task_id", TaskIdResponse), LAMBDA p1 :
      IF p1.exc # "" THEN Raise(response, p1.exc)
      ELSE
      Bind(EnsureProperty(p1.val, "status", StatusResponse), LAMBDA p2 :
      IF p2.exc # "" THEN Raise(response, p2.exc)
      ELSE
      Bind(Put(sch, "properties", p2.val), LAMBDA s1 :
      IF ~HasKey(s1, "required") THEN Ok(Put(response, "schema", s1))
      ELSE
      Bind(EnsureRequired(Get(s1, "required"), "task_id"), LAMBDA r1 :
      IF r1.exc # "" THEN Raise(response, r1.exc)
      ELSE
      Bind(EnsureRequired(r1.val, "status"), LAMBDA r2 :
      IF r2.exc # "" THEN Raise(response, r2.exc)
      ELSE Ok(Put(response, "schema", Put(s1, "required", r2.val)))))))))

(***************************************************************************)
(* One transformer run in memory: the document, the change flag and the    *)
(* exception that ended the run ("" when none did). A step after an        *)
(* exception does nothing: the except clause has taken over.               *)
(***************************************************************************)
Started(data) == [data |-> data, changed |-> FALSE, exc |-> ""]
Raised(st, e) == [st EXCEPT !.exc = e]

\* "Update instructions" of process_agent_file
AgentInstructions(st) ==
    IF st.exc # "" \/ ~HasKey(st.data, "instructions") THEN st
    ELSE
      Bind(Get(st.data, "instructions"), LAMBDA original :
      IF original.kind # "str" THEN Raised(st, "AttributeError")
      ELSE
      Bind(Str(add_engram_instructions(original.s)), LAMBDA new :
      [st EXCEPT !.data = Put(st.data, "instructions", new),
                 !.changed = st.changed \/ (new # original)]))

\* "Update parameters" of process_agent_file
AgentParameters(st) ==
    IF st.exc # "" \/ ~HasKey(st.data, "parameters") THEN st
    ELSE
      Bind(PyStr(Get(st.data, "parameters")), LAMBDA original :
      Bind(update_agent_parameters(Get(st.data, "parameters")), LAMBDA r :
      IF r.exc # "" THEN Raised(st, r.exc)
      ELSE [st EXCEPT !.data = Put(st.data, "parameters", r.val),
                      !.changed = st.changed \/ (PyStr(r.val) # original)]))

\* "Update prompt" of process_agent_file
AgentPrompt(st) ==
    IF st.exc # "" \/ ~HasKey(st.data, "prompt") THEN st
    ELSE
      Bind(Get(st.data, "prompt"), LAMBDA original :
      IF original.kind # "str" THEN Raised(st, "AttributeError")
      ELSE
      Bind(Str(update_agent_prompt(original.s)), LAMBDA new :
      [st EXCEPT !.data = Put(st.data, "prompt", new),
                 !.changed = st.changed \/ (new # original)]))

\* "Update response" of process_agent_file
AgentResponse(st) ==
    IF st.exc # "" \/ ~HasKey(st.data, "response") THEN st
    ELSE
      Bind(PyStr(Get(st.data, "response")), LAMBDA original :
      Bind(update_response_schema(Get(st.data, "response")), LAMBDA r :
      IF r.exc # "" THEN Raised(st, r.exc)
      ELSE [st EXCEPT !.data = Put(st.data, "response", r.val),
                      !.changed = st.changed \/ (PyStr(r.val) # original)]))

\* UpdateTitle without its marker test.
UpdateTitle_Unguarded(st) ==
    IF st.exc # "" \/ ~HasKey(st.data, "title") THEN st
    ELSE
      Bind(Get(st.data, "title"), LAMBDA title :
      IF title.kind # "str" THEN Raised(st, "TypeError")
      ELSE [st EXCEPT !.data = Put(st.data, "title", Str(title.s \o TITLE_SUFFIX)),
                      !.changed = TRUE])

\* "Update title", the same in both transformers: None is not iterable, and
\* only a str can be joined to the marker.
UpdateTitle(st) ==
    IF st.exc # "" \/ ~HasKey(st.data, "title") THEN st
    ELSE
      Bind(Get(st.data, "title"), LAMBDA title :
      IF InRaises(title) THEN Raised(st, "TypeError")
      ELSE IF StrIn(TITLE_MARKER, title) THEN st
      ELSE IF title.kind # "str" THEN Raised(st, "TypeError")
      ELSE [st EXCEPT !.data = Put(st.data, "title", Str(title.s \o TITLE_SUFFIX)),
                      !.changed = TRUE])

\* The mutations of process_agent_file, in its order.
AgentMutations(data) ==
    Bind(AgentInstructions(Started(data)), LAMBDA st1 :
    Bind(AgentParameters(st1), LAMBDA st2 :
    Bind(AgentPrompt(st2), LAMBDA st3 :
    Bind(AgentResponse(st3), LAMBDA st4 :
    UpdateTitle(st4)))))

(***************************************************************************)
(* The pipeline mutators.                                                  *)
(***************************************************************************)
\* "Update instructions" of process_pipeline_file
PipelineInstructions(st) ==
    IF st.exc # "" \/ ~HasKey(st.data, "instructions") THEN st
    ELSE
      Bind(Get(st.data, "instructions"), LAMBDA instructions :
      IF instructions.kind # "str" THEN Raised(st, "AttributeError")
      ELSE IF Contains(KEYWORD, Lower(instructions.s)) THEN st
      ELSE [st EXCEPT !.data = Put(st.data, "instructions",
                                   Str(engram_instr \o instructions.s)),
                      !.changed = TRUE])

\* The body of "Update parameters" of process_pipeline_file, on the parameters
\* value: the new value, the exception, and whether `changed = True` was reached.
PipelineParametersValue(parameters) ==
    LET same == [val |-> parameters, exc |-> "", changed |-> FALSE]
        fail(e) == [val |-> parameters, exc |-> e, changed |-> FALSE]
    IN  IF InRaises(parameters) THEN fail("TypeError")
        ELSE IF ~PyIn("properties", parameters) THEN same
        ELSE IF parameters.kind # "dict" THEN fail("TypeError")
        ELSE
          Bind(Get(parameters, "properties"), LAMBDA properties :
          IF InRaises(properties) THEN fail("TypeError")
          ELSE IF PyIn("parent_task_id", properties) THEN same
          ELSE IF properties.kind # "dict" THEN fail("TypeError")
          ELSE
          Bind(Put(parameters, "properties",
                   Put(properties, "parent_task_id", ParentTaskIdParameter)),
               LAMBDA d1 :
          IF ~HasKey(d1, "required")
          THEN [val |-> d1, exc |-> "", changed |-> TRUE]
          ELSE
          Bind(Get(d1, "required"), LAMBDA required :
          IF required.kind # "list" THEN fail("AttributeError")
          ELSE [val |-> Put(d1, "required",
                            List(Append(required.items, Key("parent_task_id")))),
                exc |-> "", changed |-> TRUE])))

\* "Update parameters" of process_pipeline_file
PipelineParameters(st) ==
    IF st.exc # "" \/ ~HasKey(st.data, "parameters") THEN st
    ELSE
      Bind(PipelineParametersValue(Get(st.data, "parameters")), LAMBDA r :
      IF r.exc # "" THEN Raised(st, r.exc)
      ELSE [st EXCEPT !.data = Put(st.data, "parameters", r.val),
                      !.changed = st.changed \/ r.changed])

\* The body of the sub_recipes loop on one entry.
RewriteRecipe(recipe) ==
    LET same == [val |-> recipe, exc |-> "", changed |-> FALSE]
        fail(e) == [val |-> recipe, exc |-> e, changed |-> FALSE]
    IN  IF InRaises(recipe) THEN fail("TypeError")
        ELSE IF ~PyIn("path", recipe) THEN same
        ELSE IF recipe.kind # "dict" THEN fail("TypeError")
        ELSE
          Bind(Get(recipe, "path"), LAMBDA path :
          IF InRaises(path) THEN fail("TypeError")
          ELSE IF StrIn(ADAPTED, path) THEN same
          ELSE IF path.kind # "str" THEN fail("AttributeError")
          ELSE [val |-> Put(recipe, "path",
                            Str(Replace(path.s, YAML_EXT, ADAPTED_YAML))),
                exc |-> "", changed |-> TRUE])

\* The sub_recipes loop over the entries, first to last.
RECURSIVE RewriteRecipes(_)
RewriteRecipes(recipes) ==
    IF Len(recipes) = 0 THEN [val |-> <<>>, exc |-> "", changed |-> FALSE]
    ELSE
      Bind(RewriteRecipe(Head(recipes)), LAMBDA h :
      IF h.exc # "" THEN [val |-> recipes, exc |-> h.exc, changed |-> FALSE]
      ELSE
      Bind(RewriteRecipes(Tail(recipes)), LAMBDA t :
      [val |-> <<h.val>> \o t.val, exc |-> t.exc,
       changed |-> h.changed \/ t.changed]))

\* "Update sub_recipes paths" of process_pipeline_file. Only a list holds
\* entries the loop can rewrite; None cannot be iterated.
PipelineSubRecipes(st) ==
    IF st.exc # "" \/ ~HasKey(st.data, "sub_recipes") THEN st
    ELSE
      Bind(Get(st.data, "sub_recipes"), LAMBDA sub_recipes :
      IF InRaises(sub_recipes) THEN Raised(st, "TypeError")
      ELSE
      Bind(RewriteRecipes(Elements(sub_recipes)), LAMBDA r :
      IF r.exc # ""
      THEN [st EXCEPT !.exc = r.exc, !.changed = st.changed \/ r.changed]
      ELSE IF sub_recipes.kind # "list" THEN st
      ELSE [st EXCEPT !.data = Put(st.data, "sub_recipes", List(r.val)),
                      !.changed = st.changed \/ r.changed]))

\* The mutations of process_pipeline_file, in its order.
PipelineMutations(data) ==
    Bind(UpdateTitle(Started(data)), LAMBDA st1 :
    Bind(PipelineInstructions(st1), LAMBDA st2 :
    Bind(PipelineParameters(st2), LAMBDA st3 :
    PipelineSubRecipes(st3))))

(***************************************************************************)
(* Files. A file's content is its YAML text: the document it decodes to    *)
(* and its layout ("hand": as its author wrote it, with comments; "dump":  *)
(* as yaml.dump lays a document out), or text that is no YAML, or nothing. *)
(* A file's mode says what open() allows: "rw", "ro" (no write), "no".     *)
(***************************************************************************)
Yaml(fmt, data) == [kind |-> "yaml", fmt |-> fmt, data |-> data]
Garbage == [kind |-> "garbage"]
Empty == [kind |-> "empty"]

\* yaml.safe_load(content) of a text that parses: None for an empty text
safe_load(content) == IF content.kind = "yaml" THEN content.data ELSE None

\* yaml.dump(data, f, default_flow_style=False, sort_keys=False)
yaml_dump(data) == Yaml("dump", data)

\* `not data`: None and the empty mapping are false
Falsy(data) == data.kind = "none" \/ (data.kind = "dict" /\ Len(data.items) = 0)

\* What a transformer call did: its return value, the file's content after
\* it, whether it wrote the file, the exception it caught, and the decoded
\* and the mutated document with the change flag.
Outcome(ret, content, wrote, exc, decoded, st) ==
    [ret |-> ret, content |-> content, wrote |-> wrote, exc |-> exc,
     decoded |-> decoded, data |-> st.data, changed |-> st.changed]

\* process_pipeline_file with `return True` in its except clause.
process_pipeline_file_ErrorCounted(content, mode) ==
    IF mode = "no"
    THEN Outcome(TRUE, content, FALSE, "PermissionError", None, Started(None))
    ELSE IF content.kind = "garbage"
    THEN Outcome(TRUE, content, FALSE, "YAMLError", None, Started(None))
    ELSE
      Bind(safe_load(content), LAMBDA data :
      IF Falsy(data) THEN Outcome(FALSE, content, FALSE, "", data, Started(data))
      ELSE
      Bind(PipelineMutations(data), LAMBDA st :
      IF st.exc # "" THEN Outcome(TRUE, content, FALSE, st.exc, data, st)
      ELSE IF ~st.changed THEN Outcome(FALSE, content, FALSE, "", data, st)
      ELSE IF mode = "ro"
      THEN Outcome(TRUE, content, FALSE, "PermissionError", data, st)
      ELSE Outcome(TRUE, yaml_dump(st.data), TRUE, "", data, st)))

\* process_agent_file on a file of the given content and mode
process_agent_file(content, mode) ==
    IF mode = "no"
    THEN Outcome(FALSE, content, FALSE, "PermissionError", None, Started(None))
    ELSE IF content.kind = "garbage"
    THEN Outcome(FALSE, content, FALSE, "YAMLError", None, Started(None))
    ELSE
      Bind(safe_load(content), LAMBDA data :
      IF Falsy(data) THEN Outcome(FALSE, content, FALSE, "", data, Started(data))
      ELSE
      Bind(AgentMutations(data), LAMBDA st :
      IF st.exc # "" THEN Outcome(FALSE, content, FALSE, st.exc, data, st)
      ELSE IF ~st.changed THEN Outcome(FALSE, content, FALSE, "", data, st)
      ELSE IF mode = "ro"
      THEN Outcome(FALSE, content, FALSE, "PermissionError", data, st)
      ELSE Outcome(TRUE, yaml_dump(st.data), TRUE, "", data, st)))

\* process_pipeline_file on a file of the given content and mode
process_pipeline_file(content, mode) ==
    IF mode = "no"
    THEN Outcome(FALSE, content, FALSE, "PermissionError", None, Started(None))
    ELSE IF content.kind = "garbage"
    THEN Outcome(FALSE, content, FALSE, "YAMLError", None, Started(None))
    ELSE
      Bind(safe_load(content), LAMBDA data :
      IF Falsy(data) THEN Outcome(FALSE, content, FALSE, "", data, Started(data))
      ELSE
      Bind(PipelineMutations(data), LAMBDA st :
      IF st.exc # "" THEN Outcome(FALSE, content, FALSE, st.exc, data, st)
      ELSE IF ~st.changed THEN Outcome(FALSE, content, FALSE, "", data, st)
      ELSE IF mode = "ro"
      THEN Outcome(FALSE, content, FALSE, "PermissionError", data, st)
      ELSE Outcome(TRUE, yaml_dump(st.data), TRUE, "", data, st)))

(***************************************************************************)
(* The directory tree: base_path / "agents" and base_path / "ai" /         *)
(* "pipelines". A path is its directory and its file name.                 *)
(***************************************************************************)
AGENTS == "agents"
PIPELINES == "ai/pipelines"
Path(dir, name) == [dir |-> dir, name |-> name]

AgentA == Path(AGENTS, <<"a", ".yaml">>)
AgentB == Path(AGENTS, <<"b", ".yaml">>)
AgentTemplate == Path(AGENTS, <<"_", "template", ".yaml">>)
AgentNotes == Path(AGENTS, <<"notes", ".txt">>)
PipelineP == Path(PIPELINES, <<"p", ".yaml">>)
PipelineQ == Path(PIPELINES, <<"q", ".yaml">>)
PipelineTemplate == Path(PIPELINES, <<"_", "template", ".yaml">>)
Paths ==
    {AgentA, AgentB, AgentTemplate, AgentNotes, PipelineP, PipelineQ, PipelineTemplate}

\* IsTemplate comparing the whole name with the prefix.
IsTemplate_WholeName(f) == f.name = <<"_">>

\* filepath.name.startswith("_")
IsTemplate(f) == StartsWith(f.name, <<"_">>)

\* dir.glob("*.yaml")
Glob(dir) == {f \in Paths : f.dir = dir /\ EndsWith(f.name, YAML_EXT)}

\* The files of a directory the driver hands to a transformer.
Candidates(dir) == {f \in Glob(dir) : ~IsTemplate(f)}

(***************************************************************************)
(* The documents the files hold when the tool starts.                      *)
(***************************************************************************)
\* A field the document does not have.
Absent == [kind |-> "absent"]

\* The mapping of the given fields, in their order, without the absent ones.
Doc(fields) == Dict(SelectSeq(fields, LAMBDA it : it.val.kind # "absent"))

\* The texts built from at most n of the pieces.
RECURSIVE Texts(_, _)
Texts(pieces, n) ==
    IF n = 0 THEN {<<>>}
    ELSE Texts(pieces, n - 1)
         \cup {t \o q : t \in Texts(pieces, n - 1), q \in pieces}

\* The sequences of at most n of the keys, as `required` lists them.
RECURSIVE KeyLists(_, _)
KeyLists(keys, n) ==
    IF n = 0 THEN {<<>>}
    ELSE KeyLists(keys, n - 1)
         \cup {Append(l, Key(k)) : l \in KeyLists(keys, n - 1), k \in keys}

StrsOf(texts) == {Str(t) : t \in texts}

\* A property a document already declares.
OwnProperty == Property("declared by the document")
PropertiesOf(keys) == Dict([i \in 1..Len(keys) |-> Item(keys[i], OwnProperty)])

TitleValues ==
    {Absent, None}
    \cup StrsOf(Texts({<<"Fetch">>, TITLE_MARKER, <<"(", "engram", "-", "adapted", ")">>},
                      MaxPieces))
TextValues ==
    {Absent, None}
    \cup StrsOf(Texts({<<"Do">>, <<"engram">>, <<"Engram">>, <<"ENGRAM">>}, MaxPieces))
RequiredValues(keys) ==
    {Absent, None} \cup {List(l) : l \in KeyLists(keys, MaxRequired)}

\* A schema mapping: `properties` and `required`, each present or not.
Schema(properties, required) ==
    Doc(<<Item("type", Key("object")), Item("properties", properties),
          Item("required", required)>>)

AgentParametersValues ==
    {Absent, None, Str(<<"no ", "properties">>)}
    \cup {Schema(ps, rq) :
            ps \in {Absent, None, PropertiesOf(<<>>), PropertiesOf(<<"url">>),
                    PropertiesOf(<<"task_id">>), PropertiesOf(<<"url", "task_id">>)},
            rq \in RequiredValues({"url", "task_id"})}
ResponseValues ==
    {Absent, None, Doc(<<Item("schema", None)>>), Doc(<<Item("format", Key("json"))>>)}
    \cup {Doc(<<Item("schema", Schema(ps, rq))>>) :
            ps \in {Absent, None, PropertiesOf(<<>>), PropertiesOf(<<"result">>),
                    PropertiesOf(<<"task_id">>), PropertiesOf(<<"result", "status">>),
                    PropertiesOf(<<"task_id", "status">>)},
            rq \in RequiredValues({"task_id", "status"})}
PipelineParametersValues ==
    {Absent, None, Str(<<"no ", "properties">>)}
    \cup {Schema(ps, rq) :
            ps \in {Absent, None, PropertiesOf(<<>>), PropertiesOf(<<"url">>),
                    PropertiesOf(<<"parent_task_id">>),
                    PropertiesOf(<<"url", "parent_task_id">>)},
            rq \in RequiredValues({"url", "parent_task_id"})}

PathValues ==
    {Absent, None}
    \cup StrsOf(Texts({<<"build">>, YAML_EXT, <<".yml">>, ADAPTED}, MaxPieces))
Recipe(path) == Doc(<<Item("name", Key("stage")), Item("path", path)>>)
SubRecipesValues ==
    {Absent, None}
    \cup {List(<<Recipe(v)>>) : v \in PathValues}
    \cup {List(<<Recipe(Str(v)), Recipe(Str(w))>>) :
            v, w \in {<<"build", ".yaml">>, <<"build", ".yml">>,
                      <<"build">> \o ADAPTED_YAML}}

AgentDoc(title, instructions, parameters, prompt, response) ==
    Doc(<<Item("version", Key("1.0.0")), Item("title", title),
          Item("instructions", instructions), Item("parameters", parameters),
          Item("prompt", prompt), Item("response", response)>>)
PipelineDoc(title, instructions, parameters, sub_recipes) ==
    Doc(<<Item("version", Key("1.0.0")), Item("title", title),
          Item("instructions", instructions), Item("parameters", parameters),
          Item("sub_recipes", sub_recipes)>>)

\* The scenario of the specification: an agent document not yet adapted.
FetchTitle == Str(<<"Fetch", " ", "Data">>)
FetchInstructions == Str(<<"Do", " the fetch.">>)
FetchParameters == Schema(PropertiesOf(<<"url">>), List(<<Key("url")>>))
FetchPrompt == Str(<<"Fetch", " {{url}}">>)
FetchResponse ==
    Doc(<<Item("schema", Schema(PropertiesOf(<<"result">>), List(<<Key("result")>>)))>>)
FetchAgent ==
    AgentDoc(FetchTitle, FetchInstructions, FetchParameters, FetchPrompt, FetchResponse)
\* A pipeline document not yet adapted.
BuildSubRecipes == List(<<Recipe(Str(<<"build", ".yaml">>))>>)
BuildPipeline ==
    PipelineDoc(Str(<<"Build">>), Str(<<"Run the stages.">>), FetchParameters,
                BuildSubRecipes)

\* The values of a field: when it is absent, not adapted, and already adapted.
AdaptedDoc(agent) == IF agent THEN AgentMutations(FetchAgent).data
                  ELSE PipelineMutations(BuildPipeline).data
Stages(agent, key) ==
    {Absent,
     Get(IF agent THEN FetchAgent ELSE BuildPipeline, key),
     Get(AdaptedDoc(agent), key)}

\* The agent documents: the fields' stages in every combination, and every
\* value of one field in the document of the scenario.
AgentDocs ==
    {AgentDoc(t, i, ps, pr, rs) :
        t \in Stages(TRUE, "title"), i \in Stages(TRUE, "instructions"),
        ps \in Stages(TRUE, "parameters"), pr \in Stages(TRUE, "prompt"),
        rs \in Stages(TRUE, "response")}
    \cup {AgentDoc(t, FetchInstructions, FetchParameters, FetchPrompt, FetchResponse) :
            t \in TitleValues}
    \cup {AgentDoc(FetchTitle, i, FetchParameters, FetchPrompt, FetchResponse) :
            i \in TextValues}
    \cup {AgentDoc(FetchTitle, FetchInstructions, ps, FetchPrompt, FetchResponse) :
            ps \in AgentParametersValues}
    \cup {AgentDoc(FetchTitle, FetchInstructions, FetchParameters, pr, FetchResponse) :
            pr \in TextValues}
    \cup {AgentDoc(FetchTitle, FetchInstructions, FetchParameters, FetchPrompt, rs) :
            rs \in ResponseValues}

\* The pipeline documents, likewise.
PipelineDocs ==
    {PipelineDoc(t, i, ps, sr) :
        t \in Stages(FALSE, "title"), i \in Stages(FALSE, "instructions"),
        ps \in Stages(FALSE, "parameters"), sr \in Stages(FALSE, "sub_recipes")}
    \cup {PipelineDoc(t, Str(<<"Run the stages.">>), FetchParameters, BuildSubRecipes) :
            t \in TitleValues}
    \cup {PipelineDoc(Str(<<"Build">>), i, FetchParameters, BuildSubRecipes) :
            i \in TextValues}
    \cup {PipelineDoc(Str(<<"Build">>), Str(<<"Run the stages.">>), ps, BuildSubRecipes) :
            ps \in PipelineParametersValues}
    \cup {PipelineDoc(Str(<<"Build">>), Str(<<"Run the stages.">>), FetchParameters, sr) :
            sr \in SubRecipesValues}

(***************************************************************************)
(* The file system the tool starts on.                                     *)
(***************************************************************************)
\* A file as the driver finds it: its content and its mode.
File(content, mode) == [content |-> content, mode |-> mode]
Fresh(data) == File(Yaml("hand", data), "rw")

\* The conditions of a candidate file that make its processing fail or do
\* nothing, beside the documents above.
AgentConditions ==
    {Fresh(FetchAgent), File(Garbage, "rw"), File(Empty, "rw"),
     File(Yaml("hand", FetchAgent), "no"), File(Yaml("hand", FetchAgent), "ro"),
     Fresh(AgentDoc(FetchTitle, None, Absent, Absent, Absent))}
PipelineConditions ==
    {Fresh(BuildPipeline), File(Garbage, "rw"), File(Empty, "rw"),
     File(Yaml("hand", BuildPipeline), "no"), File(Yaml("hand", BuildPipeline), "ro"),
     Fresh(PipelineDoc(Str(<<"Build">>), None, Absent, Absent))}

\* The tree with the given files at the four candidate paths.
Tree(a, b, p, q) ==
    (AgentA :> a) @@ (AgentB :> b) @@ (AgentTemplate :> Fresh(FetchAgent))
    @@ (AgentNotes :> File(Garbage, "rw"))
    @@ (PipelineP :> p) @@ (PipelineQ :> q) @@ (PipelineTemplate :> Fresh(BuildPipeline))

\* The trees of the documents: every document at one path, the scenario's
\* documents at the others.
DocumentTrees ==
    {Tree(Fresh(d), Fresh(FetchAgent), Fresh(BuildPipeline), Fresh(BuildPipeline)) :
        d \in AgentDocs}
    \cup {Tree(Fresh(FetchAgent), Fresh(FetchAgent), Fresh(d), Fresh(BuildPipeline)) :
            d \in PipelineDocs}

\* The trees of the failures: every pair of conditions in one directory.
FailureTrees ==
    {Tree(a, b, Fresh(BuildPipeline), Fresh(BuildPipeline)) :
        a \in AgentConditions, b \in AgentConditions}
    \cup {Tree(Fresh(FetchAgent), Fresh(FetchAgent), p, q) :
            p \in PipelineConditions, q \in PipelineConditions}

(***************************************************************************)
(* The state.                                                              *)
(***************************************************************************)
VARIABLES
    fs,                \* path -> File: the files of the two directories
    dirs,              \* the directories that exist
    pc,                \* where main() is
    todo,              \* the paths the running glob loop has yet to yield
    agent_count, agent_changed, pipeline_count, pipeline_changed,
    stdout,            \* the lines printed by the running process
    runs,              \* how many times the tool was started
    calls,             \* path -> how often a transformer was called on it, this run
    outcome,           \* path -> what the transformer call on it did, this run
    fs0,               \* the files when the tool was first started
    fs1                \* the files when the first run ended

vars ==
    <<fs, dirs, pc, todo, agent_count, agent_changed, pipeline_count,
      pipeline_changed, stdout, runs, calls, outcome, fs0, fs1>>

NoCall == [ret |-> FALSE, exc |-> "not called"]

InitOn(trees, dirsets) ==
    /\ fs \in trees
    /\ dirs \in dirsets
    /\ pc = "start"
    /\ todo = {}
    /\ agent_count = 0 /\ agent_changed = 0
    /\ pipeline_count = 0 /\ pipeline_changed = 0
    /\ stdout = <<>>
    /\ runs = 1
    /\ calls = [f \in Paths |-> 0]
    /\ outcome = [f \in Paths |-> NoCall]
    /\ fs0 = fs
    /\ fs1 = fs

Init ==
    \/ InitOn(DocumentTrees \cup FailureTrees, {{AGENTS, PIPELINES}})
    \/ InitOn({Tree(Fresh(FetchAgent), Fresh(FetchAgent),
                    Fresh(BuildPipeline), Fresh(BuildPipeline))},
              SUBSET {AGENTS, PIPELINES})

(***************************************************************************)
(* main()                                                                  *)
(***************************************************************************)
Line(kind, name, changed, total) ==
    [kind |-> kind, name |-> name, changed |-> changed, total |-> total]

\* The lines a transformer call and the driver print for one file.
LinesOf(f, r) ==
    (IF r.exc # "" THEN <<Line("Error processing", f.name, 0, 0)>> ELSE <<>>)
    \o (IF r.ret THEN <<Line("Updated", f.name, 0, 0)>> ELSE <<>>)

\* if agents_dir.exists(): the counters are set and the glob starts
AgentsBegin ==
    /\ pc = "start" /\ AGENTS \in dirs
    /\ agent_count' = 0 /\ agent_changed' = 0
    /\ todo' = Glob(AGENTS)
    /\ pc' = "agents"
    /\ UNCHANGED <<fs, dirs, pipeline_count, pipeline_changed, stdout, runs,
                   calls, outcome, fs0, fs1>>

\* the agents directory does not exist: the phase is skipped
AgentsAbsent ==
    /\ pc = "start" /\ AGENTS \notin dirs
    /\ pc' = "pipelines"
    /\ UNCHANGED <<fs, dirs, todo, agent_count, agent_changed, pipeline_count,
                   pipeline_changed, stdout, runs, calls, outcome, fs0, fs1>>

\* one turn of the agents loop on a template: continue
AgentSkip(f) ==
    /\ pc = "agents" /\ f \in todo /\ IsTemplate(f)
    /\ todo' = todo \ {f}
    /\ UNCHANGED <<fs, dirs, pc, agent_count, agent_changed, pipeline_count,
                   pipeline_changed, stdout, runs, calls, outcome, fs0, fs1>>

\* one turn of the agents loop on a candidate
AgentFile(f) ==
    /\ pc = "agents" /\ f \in todo /\ ~IsTemplate(f)
    /\ \E r \in {process_agent_file(fs[f].content, fs[f].mode)} :
           /\ agent_count' = agent_count + 1
           /\ agent_changed' = IF r.ret THEN agent_changed + 1 ELSE agent_changed
           /\ fs' = [fs EXCEPT ![f].content = r.content]
           /\ stdout' = stdout \o LinesOf(f, r)
           /\ calls' = [calls EXCEPT ![f] = @ + 1]
           /\ outcome' = [outcome EXCEPT ![f] = r]
    /\ todo' = todo \ {f}
    /\ UNCHANGED <<dirs, pc, pipeline_count, pipeline_changed, runs, fs0, fs1>>

\* the agents loop is over: the tally is printed
AgentsEnd ==
    /\ pc = "agents" /\ todo = {}
    /\ stdout' = Append(stdout, Line("Agents", <<>>, agent_changed, agent_count))
    /\ pc' = "pipelines"
    /\ UNCHANGED <<fs, dirs, todo, agent_count, agent_changed, pipeline_count,
                   pipeline_changed, runs, calls, outcome, fs0, fs1>>

\* if pipelines_dir.exists(): the counters are set and the glob starts
PipelinesBegin ==
    /\ pc = "pipelines" /\ PIPELINES \in dirs
    /\ pipeline_count' = 0 /\ pipeline_changed' = 0
    /\ todo' = Glob(PIPELINES)
    /\ pc' = "pipeline files"
    /\ UNCHANGED <<fs, dirs, agent_count, agent_changed, stdout, runs,
                   calls, outcome, fs0, fs1>>

\* the pipelines directory does not exist: main() returns
PipelinesAbsent ==
    /\ pc = "pipelines" /\ PIPELINES \notin dirs
    /\ pc' = "done"
    /\ UNCHANGED <<fs, dirs, todo, agent_count, agent_changed, pipeline_count,
                   pipeline_changed, stdout, runs, calls, outcome, fs0, fs1>>

\* one turn of the pipelines loop on a template: continue
PipelineSkip(f) ==
    /\ pc = "pipeline files" /\ f \in todo /\ IsTemplate(f)
    /\ todo' = todo \ {f}
    /\ UNCHANGED <<fs, dirs, pc, agent_count, agent_changed, pipeline_count,
                   pipeline_changed, stdout, runs, calls, outcome, fs0, fs1>>

\* one turn of the pipelines loop on a candidate
PipelineFile(f) ==
    /\ pc = "pipeline files" /\ f \in todo /\ ~IsTemplate(f)
    /\ \E r \in {process_pipeline_file(fs[f].content, fs[f].mode)} :
           /\ pipeline_count' = pipeline_count + 1
           /\ pipeline_changed' = IF r.ret THEN pipeline_changed + 1
                                  ELSE pipeline_changed
           /\ fs' = [fs EXCEPT ![f].content = r.content]
           /\ stdout' = stdout \o LinesOf(f, r)
           /\ calls' = [calls EXCEPT ![f] = @ + 1]
           /\ outcome' = [outcome EXCEPT ![f] = r]
    /\ todo' = todo \ {f}
    /\ UNCHANGED <<dirs, pc, agent_count, agent_changed, runs, fs0, fs1>>

\* the pipelines loop is over: the tally is printed and main() returns
PipelinesEnd ==
    /\ pc = "pipeline files" /\ todo = {}
    /\ stdout' = Append(stdout, Line("Pipelines", <<>>, pipeline_changed, pipeline_count))
    /\ pc' = "done"
    /\ UNCHANGED <<fs, dirs, todo, agent_count, agent_changed, pipeline_count,
                   pipeline_changed, runs, calls, outcome, fs0, fs1>>

\* The tool is started again on the tree the last run left.
Rerun ==
    /\ pc = "done" /\ runs < MaxRuns
    /\ runs' = runs + 1
    /\ pc' = "start"
    /\ stdout' = <<>>
    /\ calls' = [f \in Paths |-> 0]
    /\ outcome' = [f \in Paths |-> NoCall]
    /\ fs1' = IF runs = 1 THEN fs ELSE fs1
    /\ UNCHANGED <<fs, dirs, todo, agent_count, agent_changed, pipeline_count,
                   pipeline_changed, fs0>>

Run ==
    \/ AgentsBegin
    \/ AgentsAbsent
    \/ \E f \in Paths : AgentSkip(f)
    \/ \E f \in Paths : AgentFile(f)
    \/ AgentsEnd
    \/ PipelinesBegin
    \/ PipelinesAbsent
    \/ \E f \in Paths : PipelineSkip(f)
    \/ \E f \in Paths : PipelineFile(f)
    \/ PipelinesEnd

Next == Run \/ Rerun

Spec == Init /\ [][Next]_vars

\* The runs on the trees of the failures. main() is a sequential program:
\* while it has a step to take it takes one.
FailureInit ==
    \/ InitOn(FailureTrees, {{AGENTS, PIPELINES}})
    \/ InitOn({Tree(Fresh(FetchAgent), File(Garbage, "rw"),
                    Fresh(BuildPipeline), File(Garbage, "rw"))},
              SUBSET {AGENTS, PIPELINES})
FailureSpec == FailureInit /\ [][Next]_vars /\ WF_vars(Run)

(***************************************************************************)
(* What the properties below speak of.                                     *)
(***************************************************************************)
\* The transformer was called on f in this run and raised nothing.
Processed(f) == calls[f] >= 1 /\ outcome[f].exc = ""

\* The document a file holds, None when it holds none.
DocumentOf(file) == IF file.content.kind = "yaml" THEN file.content.data ELSE None

\* The str field `key` of document d, <<>> when d has no such str.
HasStr(d, key) == d.kind = "dict" /\ HasKey(d, key) /\ Get(d, key).kind = "str"
TextOf(d, key) == IF HasStr(d, key) THEN Get(d, key).s ELSE <<>>

\* The text holds the keyword in some letter case.
HasKeyword(text) ==
    \E i \in 1..Len(text) : text[i] \in {"engram", "Engram", "ENGRAM"}

\* The files the driver is to hand to a transformer.
CandidateFiles ==
    {f \in Paths : f.dir \in dirs /\ f.name[Len(f.name)] = ".yaml" /\ f.name[1] # "_"}

\* A schema mapping of the expected shape: `properties` a mapping and
\* `required` a sequence, where present.
SchemaShaped(v) ==
    /\ v.kind = "dict"
    /\ HasKey(v, "properties") => Get(v, "properties").kind = "dict"
    /\ HasKey(v, "required") => Get(v, "required").kind = "list"
\* A document all of whose recognized fields, where present, have the
\* expected shape.
WellShaped(d) ==
    /\ d.kind = "dict"
    /\ HasKey(d, "instructions") => Get(d, "instructions").kind = "str"
    /\ HasKey(d, "prompt") => Get(d, "prompt").kind = "str"
    /\ HasKey(d, "parameters") => SchemaShaped(Get(d, "parameters"))
    /\ HasKey(d, "response") =>
          /\ Get(d, "response").kind = "dict"
          /\ HasKey(Get(d, "response"), "schema") =>
                SchemaShaped(Get(Get(d, "response"), "schema"))
    /\ HasKey(d, "sub_recipes") =>
          /\ Get(d, "sub_recipes").kind = "list"
          /\ \A i \in 1..Len(Get(d, "sub_recipes").items) :
                LET e == Get(d, "sub_recipes").items[i]
                IN  e.kind = "dict" /\ (HasKey(e, "path") => Get(e, "path").kind = "str")

(***************************************************************************)
(* C1. Idempotence of the document: once the first run has ended, no later *)
(* run changes the document of any file: running the transformer twice     *)
(* leaves the document the first run left.                                 *)
(***************************************************************************)
C1_Idempotence ==
    runs >= 2 => \A f \in Paths : DocumentOf(fs[f]) = DocumentOf(fs1[f])

\* A second run has ended on a tree whose agent and pipeline documents the
\* first run rewrote.
C1_Witness ==
    /\ runs = 2 /\ pc = "done"
    /\ calls[AgentA] = 1 /\ calls[PipelineP] = 1
    /\ DocumentOf(fs1[AgentA]) # DocumentOf(fs0[AgentA])
    /\ DocumentOf(fs1[PipelineP]) # DocumentOf(fs0[PipelineP])

(***************************************************************************)
(* C2. A re-run performs no further change: in a second or later run,      *)
(* every transformer call that raises nothing leaves the change flag       *)
(* false, returns False and does not write the file.                       *)
(***************************************************************************)
C2_RerunChangesNothing ==
    runs >= 2 =>
        \A f \in Paths :
            Processed(f) =>
                ~outcome[f].changed /\ ~outcome[f].ret /\ ~outcome[f].wrote

(***************************************************************************)
(* C3. Conditional persistence: in a transformer call that raises nothing, *)
(* the file is written if and only if the change flag is true, the change  *)
(* flag is true exactly when the mutated document differs from the decoded *)
(* one, and when they are equal the file's bytes are as they were.         *)
(***************************************************************************)
C3_ConditionalPersistence ==
    \A f \in Paths :
        Processed(f) =>
            /\ outcome[f].wrote <=> outcome[f].changed
            /\ outcome[f].changed <=> (outcome[f].data # outcome[f].decoded)
            /\ (outcome[f].data = outcome[f].decoded) => ~outcome[f].wrote

(***************************************************************************)
(* C4. Schema augmentation: when `properties` is a mapping without the key *)
(* (task_id in an agent's parameters, task_id and status in an agent's     *)
(* response schema, parent_task_id in a pipeline's parameters), after the  *)
(* mutation the key is in `properties` with type "string" and a non-empty  *)
(* description, and it occurs exactly once in `required` if there was one. *)
(***************************************************************************)
Occurrences(list, key) ==
    Cardinality({i \in 1..Len(list.items) : list.items[i] = Key(key)})
Augmented(old, new, key) ==
    (/\ old.kind = "dict" /\ HasKey(old, "properties")
     /\ Get(old, "properties").kind = "dict"
     /\ ~HasKey(Get(old, "properties"), key))
    =>
    /\ HasKey(Get(new, "properties"), key)
    /\ Get(Get(Get(new, "properties"), key), "type") = Key("string")
    /\ Len(Get(Get(Get(new, "properties"), key), "description").s) > 0
    /\ (HasKey(old, "required") /\ Get(old, "required").kind = "list")
          => Occurrences(Get(new, "required"), key) = 1
SchemaOf(d) ==
    IF HasKey(d, "response") /\ Get(d, "response").kind = "dict"
       /\ HasKey(Get(d, "response"), "schema")
    THEN Get(Get(d, "response"), "schema")
    ELSE None
ParametersOf(d) == IF HasKey(d, "parameters") THEN Get(d, "parameters") ELSE None
C4_SchemaAugmentation ==
    \A f \in Paths :
        Processed(f) /\ outcome[f].decoded.kind = "dict" =>
            LET old == outcome[f].decoded
                new == outcome[f].data
            IN  IF f.dir = AGENTS
                THEN /\ Augmented(ParametersOf(old), ParametersOf(new), "task_id")
                     /\ Augmented(SchemaOf(old), SchemaOf(new), "task_id")
                     /\ Augmented(SchemaOf(old), SchemaOf(new), "status")
                ELSE Augmented(ParametersOf(old), ParametersOf(new), "parent_task_id")

(***************************************************************************)
(* C5. Per-file error isolation: whatever files fail, every run ends, and  *)
(* when it has ended every candidate file of each existing directory was   *)
(* passed to its transformer exactly once (and no other file was), each    *)
(* phase counted all its candidates as seen and only the files written as  *)
(* changed, no failing file among them, and printed its tally.             *)
(***************************************************************************)
Tallied(dir, phase, changed, total) ==
    dir \in dirs =>
        /\ total = Cardinality({f \in CandidateFiles : f.dir = dir})
        /\ changed = Cardinality({f \in CandidateFiles : f.dir = dir /\ outcome[f].ret})
        /\ \E i \in 1..Len(stdout) : stdout[i] = Line(phase, <<>>, changed, total)
RunComplete ==
    /\ \A f \in Paths : calls[f] = IF f \in CandidateFiles THEN 1 ELSE 0
    /\ \A f \in CandidateFiles :
          outcome[f].exc # "" => ~outcome[f].ret /\ fs[f].content = outcome[f].content
    /\ \A f \in CandidateFiles : outcome[f].ret => outcome[f].wrote
    /\ Tallied(AGENTS, "Agents", agent_changed, agent_count)
    /\ Tallied(PIPELINES, "Pipelines", pipeline_changed, pipeline_count)
C5_ErrorIsolation ==
    /\ [](pc = "done" => RunComplete)
    /\ (pc = "start") ~> (pc = "done")

\* A run has ended in which both agent files failed, one whose text does not
\* decode and one that cannot be written, and both pipeline files were
\* rewritten all the same.
C5_Witness ==
    /\ pc = "done"
    /\ outcome[AgentA].exc = "YAMLError"
    /\ outcome[AgentB].exc = "PermissionError" /\ fs[AgentB].mode = "ro"
    /\ agent_count = 2 /\ agent_changed = 0
    /\ pipeline_count = 2 /\ pipeline_changed = 2

(***************************************************************************)
(* C6. Shape mismatches are not fatal: when a recognized field of a        *)
(* document is null, the transformer raises nothing for the file, leaves   *)
(* the field as it is, and the title still receives its marker, which is   *)
(* written to the file.                                                    *)
(***************************************************************************)
RecognizedFields(dir) ==
    IF dir = AGENTS THEN {"title", "instructions", "parameters", "prompt", "response"}
    ELSE {"title", "instructions", "parameters", "sub_recipes"}
NullFields(d, dir) ==
    {k \in RecognizedFields(dir) : HasKey(d, k) /\ Get(d, k).kind = "none"}
C6_ShapeMismatchNotFatal ==
    \A f \in Paths :
        (/\ calls[f] >= 1 /\ fs[f].mode = "rw"
         /\ outcome[f].decoded.kind = "dict"
         /\ NullFields(outcome[f].decoded, f.dir) # {})
        =>
        /\ outcome[f].exc = ""
        /\ \A k \in NullFields(outcome[f].decoded, f.dir) : Get(outcome[f].data, k) = None
        /\ (/\ HasStr(outcome[f].decoded, "title")
            /\ ~Contains(TITLE_MARKER, TextOf(outcome[f].decoded, "title")))
           => TextOf(DocumentOf(fs[f]), "title")
                = TextOf(outcome[f].decoded, "title") \o TITLE_SUFFIX

(***************************************************************************)
(* C7. Skip-template invariant: in both phases no transformer is ever      *)
(* called on a file whose name begins with "_", such a file is not counted *)
(* in the phase total (the total is the number of files a transformer was  *)
(* called on), and its bytes stay as they were when the tool first ran.    *)
(***************************************************************************)
Seen(dir) == Cardinality({f \in Paths : f.dir = dir /\ calls[f] >= 1})
C7_SkipTemplate ==
    /\ \A f \in Paths : f.name[1] = "_" => calls[f] = 0 /\ fs[f] = fs0[f]
    /\ (AGENTS \in dirs /\ pc \in {"agents", "pipelines", "pipeline files", "done"})
          => agent_count = Seen(AGENTS)
    /\ (PIPELINES \in dirs /\ pc \in {"pipeline files", "done"})
          => pipeline_count = Seen(PIPELINES)

\* Two full runs have ended; they rewrote an agent and a pipeline file, and
\* the templates still hold documents that are not adapted.
C7_Witness ==
    /\ runs = 2 /\ pc = "done"
    /\ fs[AgentA] # fs0[AgentA] /\ fs[PipelineP] # fs0[PipelineP]
    /\ agent_count = 2 /\ pipeline_count = 2
    /\ DocumentOf(fs[AgentTemplate]) = FetchAgent
    /\ DocumentOf(fs[PipelineTemplate]) = BuildPipeline

(***************************************************************************)
(* C8. Title marker: for a writable candidate file whose document has a    *)
(* str title and well-shaped fields, once the file was processed (in this  *)
(* run or an earlier one) the title is the original title if that held     *)
(* "(Engram-Adapted)", and else the original title followed by             *)
(* " (Engram-Adapted)" exactly once, after any number of runs.             *)
(***************************************************************************)
MarkedOnce(title) ==
    IF Contains(TITLE_MARKER, title) THEN title ELSE title \o TITLE_SUFFIX
C8_TitleMarker ==
    \A f \in CandidateFiles :
        (/\ fs0[f].mode = "rw"
         /\ HasStr(DocumentOf(fs0[f]), "title")
         /\ WellShaped(DocumentOf(fs0[f]))
         /\ (runs >= 2 \/ calls[f] >= 1))
        => TextOf(DocumentOf(fs[f]), "title")
             = MarkedOnce(TextOf(DocumentOf(fs0[f]), "title"))

\* Two runs have ended on a pipeline document whose instructions already held
\* the keyword: they are as they were, and the title has its marker once.
C8_Witness ==
    /\ runs = 2 /\ pc = "done"
    /\ HasStr(DocumentOf(fs0[PipelineP]), "title")
    /\ ~Contains(TITLE_MARKER, TextOf(DocumentOf(fs0[PipelineP]), "title"))
    /\ HasKeyword(TextOf(DocumentOf(fs0[PipelineP]), "instructions"))
    /\ TextOf(DocumentOf(fs[PipelineP]), "instructions")
         = TextOf(DocumentOf(fs0[PipelineP]), "instructions")
    /\ TextOf(DocumentOf(fs[PipelineP]), "title")
         = TextOf(DocumentOf(fs0[PipelineP]), "title") \o TITLE_SUFFIX

(***************************************************************************)
(* C9. Keyword guard: in a transformer call that raises nothing, a text    *)
(* (agent instructions, agent prompt, pipeline instructions) that holds    *)
(* "engram" in any letter case is left exactly as it was and its mutation  *)
(* does not set the change flag; any other text becomes the fixed block    *)
(* followed by the text (instructions) or the text followed by the block   *)
(* (prompt).                                                               *)
(***************************************************************************)
Guarded(old, new, key, before, after) ==
    HasStr(old, key) =>
        IF HasKeyword(TextOf(old, key))
        THEN TextOf(new, key) = TextOf(old, key)
        ELSE TextOf(new, key) = before \o TextOf(old, key) \o after
C9_KeywordGuard ==
    \A f \in Paths :
        Processed(f) =>
            IF f.dir = AGENTS
            THEN /\ Guarded(outcome[f].decoded, outcome[f].data, "instructions",
                            engram_prefix, <<>>)
                 /\ Guarded(outcome[f].decoded, outcome[f].data, "prompt",
                            <<>>, engram_prompt_addition)
                 /\ HasKeyword(TextOf(outcome[f].decoded, "instructions"))
                       => ~AgentInstructions(Started(outcome[f].decoded)).changed
                 /\ HasKeyword(TextOf(outcome[f].decoded, "prompt"))
                       => ~AgentPrompt(Started(outcome[f].decoded)).changed
            ELSE /\ Guarded(outcome[f].decoded, outcome[f].data, "instructions",
                            engram_instr, <<>>)
                 /\ HasKeyword(TextOf(outcome[f].decoded, "instructions"))
                       => ~PipelineInstructions(Started(outcome[f].decoded)).changed

\* An agent file was processed whose instructions held the keyword in capitals
\* only, and are unchanged, and whose prompt received the block.
C9_Witness ==
    /\ Processed(AgentA)
    /\ TextOf(outcome[AgentA].decoded, "instructions") = <<"ENGRAM">>
    /\ TextOf(outcome[AgentA].data, "instructions") = <<"ENGRAM">>
    /\ TextOf(outcome[AgentA].data, "prompt") = FetchPrompt.s \o engram_prompt_addition

(***************************************************************************)
(* C10. Sub-recipe path rewrite: in a pipeline transformer call that       *)
(* raises nothing, every entry's path without "-engram-adapted" becomes    *)
(* the path with only its ".yaml" suffix replaced by                       *)
(* "-engram-adapted.yaml", every other path stays, and the mutation sets   *)
(* the change flag only if it rewrote some entry.                          *)
(***************************************************************************)
SuffixRewritten(path) ==
    IF EndsWith(path, YAML_EXT)
    THEN SubSeq(path, 1, Len(path) - Len(YAML_EXT)) \o ADAPTED_YAML
    ELSE path
C10_PathRewrite ==
    \A f \in Paths :
        (/\ Processed(f) /\ f.dir = PIPELINES
         /\ outcome[f].decoded.kind = "dict"
         /\ HasKey(outcome[f].decoded, "sub_recipes")
         /\ Get(outcome[f].decoded, "sub_recipes").kind = "list")
        =>
        LET old == Get(outcome[f].decoded, "sub_recipes").items
            new == Get(outcome[f].data, "sub_recipes").items
        IN  /\ \A i \in 1..Len(old) :
                  HasStr(old[i], "path") =>
                      TextOf(new[i], "path")
                        = IF Contains(ADAPTED, TextOf(old[i], "path"))
                          THEN TextOf(old[i], "path")
                          ELSE SuffixRewritten(TextOf(old[i], "path"))
            /\ PipelineSubRecipes(Started(outcome[f].decoded)).changed => new # old

====
